---- MODULE Spec2Model ----
(***************************************************************************)
(* A model of the PLONK prover of proof-systems:                           *)
(*   - the plookup grand-product argument of                               *)
(*     circuits/plonk-5-wires-plookup/src/polynomials/tbllkp.rs            *)
(*     (tbllkp_sortedset, tbllkp_aggreg, tbllkp_quot) over a small prime   *)
(*     field,                                                              *)
(*   - the orchestration of ProverProof::create of                         *)
(*     dlog/plonk-15-wires/src/prover.rs with its Fiat-Shamir transcript,  *)
(*   - calls of these that run at the same time on one Index.              *)
(***************************************************************************)
EXTENDS Integers, Sequences, FiniteSets, TLC

(***************************************************************************)
(* Bounds of the model.                                                    *)
(***************************************************************************)
\* the field F: the integers modulo the prime P, ordered by their canonical
\* representative (the Ord instance sort_unstable uses)
P == 5
\* table entries are drawn from 0..MaxTableVal
MaxTableVal == 3
\* witness entries of the lookup column are drawn from 0..MaxWitVal
MaxWitVal == 1
\* the challenges beta2, gamma2 are drawn from 0..MaxChal
MaxChal == 2
\* sizes of the radix-2 domain d1 that are explored
DomainSizes == {2, 4}
\* the number of witness columns (wires::COLUMNS of plonk-15-wires)
COLUMNS == 15
\* Index.max_quot_size is drawn from 1..MaxQuotSize
MaxQuotSize == 3
\* Index.max_poly_size is drawn from 1..MaxPolySize
MaxPolySize == 2
\* the quotient commitment has 0..MaxChunks unshifted chunks
MaxChunks == 2

\* the largest seed the operating system gives a thread's generator
MaxSeed == 1
\* the calls that run at the same time
Calls == {1, 2}

Min(a, b) == IF a < b THEN a ELSE b

F == 0..(P - 1)
TableVals == 0..Min(MaxTableVal, P - 1)
WitVals == 0..Min(MaxWitVal, P - 1)
ChalVals == 0..Min(MaxChal, P - 1)

(***************************************************************************)
(* Field arithmetic of F (ark_ff): +, *, one, inverse.                     *)
(***************************************************************************)
fadd(a, b) == (a + b) % P
fmul(a, b) == (a * b) % P
fone == 1 % P

RECURSIVE fpow(_, _)
fpow(a, e) == IF e = 0 THEN fone ELSE fmul(a, fpow(a, e - 1))

\* Field::inverse of a nonzero element
finverse(a) == fpow(a, P - 2)

(***************************************************************************)
(* Sequences helpers (Vec operations of the source).                       *)
(***************************************************************************)
RECURSIVE InsertSorted(_, _)
InsertSorted(x, s) ==
    IF s = <<>> THEN <<x>>
    ELSE IF x <= Head(s) THEN <<x>> \o s
    ELSE <<Head(s)>> \o InsertSorted(x, Tail(s))

\* slice::sort_unstable on field elements: nondecreasing order of the values
RECURSIVE sort_unstable(_)
sort_unstable(s) ==
    IF s = <<>> THEN <<>>
    ELSE InsertSorted(Head(s), sort_unstable(Tail(s)))

(***************************************************************************)
(* State.                                                                  *)
(*   lcs      the ConstraintSystem the lookup functions are called on:     *)
(*            n = domain.d1.size, table1 = the table evaluations,          *)
(*            gates = the lookup selector g.lookup() of every gate         *)
(*   lkpevl   the LookupEvals built by tbllkp_sortedset and updated by     *)
(*            tbllkp_aggreg ("none" before tbllkp_sortedset returned)      *)
(*   loracles the RandomOracles handed to tbllkp_aggreg                    *)
(*   lz       the local vector z of tbllkp_aggreg when it finished         *)
(*   lres     what tbllkp_aggreg returned                                  *)
(*   lalpha   the alpha powers handed to tbllkp_quot                       *)
(*   lquot    what tbllkp_quot returned                                    *)
(*   lpc      the position of the caller of the lookup functions           *)
(***************************************************************************)
VARIABLES lcs, lkpevl, loracles, lz, lres, lalpha, lquot, lpc

lvars == <<lcs, lkpevl, loracles, lz, lres, lalpha, lquot, lpc>>

(***************************************************************************)
(* State of one call of ProverProof::create.                               *)
(*   index     the Index: n = cs.domain.d1.size, public = cs.public,       *)
(*             max_quot_size, max_poly_size                                *)
(*   witness   the witness: the length of each of its COLUMNS columns and  *)
(*             sat = index.cs.verify(witness)                              *)
(*   oracles   the RandomOracles (NoOracles before RandomOracles::zero())  *)
(*   fq_sponge the base-field sponge: everything it absorbed and squeezed  *)
(*   fr_sponge the scalar-field sponge, likewise                           *)
(*   comms     the commitments made so far (w_comm, z_comm, t_comm)        *)
(*   quot      the quotient polynomial t once it is formed                 *)
(*   ops       the steps the call has performed, in order                  *)
(*   result    what the call returned: tag "none" while it runs, "panic"   *)
(*             when it unwound, else the Ok or Err value                   *)
(*   pc        the position of the call                                    *)
(*   rng       the generator thread_rng() hands to the call: the seed the  *)
(*             operating system gave it and how many values were drawn     *)
(***************************************************************************)
VARIABLES index, witness, oracles, fq_sponge, fr_sponge, comms, quot, ops,
          result, pc, rng

pvars == <<index, witness, oracles, fq_sponge, fr_sponge, comms, quot, ops,
           result, pc, rng>>

(***************************************************************************)
(* Several calls on one Index / ConstraintSystem.  index and lcs are the   *)
(* shared arguments; every other variable above is the state of the call   *)
(* that is running.                                                        *)
(*   cur       the call that is running                                    *)
(*   others    the state of every other call, as it was when the call was  *)
(*             last running                                                *)
(*   computed  the results of the computations the model does not carry    *)
(*             out (perm_aggreg, the division by the vanishing polynomial, *)
(*             the chunks of commit(&t, ..)), each with its arguments: the *)
(*             same computation on the same arguments gives the same       *)
(*             result                                                      *)
(***************************************************************************)
VARIABLES cur, others, computed

vars == <<lcs, lkpevl, loracles, lz, lres, lalpha, lquot, lpc,
          index, witness, oracles, fq_sponge, fr_sponge, comms, quot, ops,
          result, pc, rng, cur, others, computed>>

\* all sequences of length k over the set S
RECURSIVE SeqsOfLen(_, _)
SeqsOfLen(S, k) ==
    IF k = 0 THEN {<<>>}
    ELSE {<<x>> \o t : x \in S, t \in SeqsOfLen(S, k - 1)}

\* the gates of a circuit with g gates of which the first a are lookup gates
GatesOf(g, a) == [j \in 1..g |-> IF j <= a THEN 1 ELSE 0]

\* the blinding polynomials DP::rand(2, rng) may draw (three coefficients)
RandPolys == {<<1, 0, 1>>, <<2, 1, 0>>}

(***************************************************************************)
(* tbllkp_sortedset                                                        *)
(***************************************************************************)
\* lookup values taken from n rows instead of n - 1
sortedset_lw_take_n(cs, wcol) ==
    LET k == Min(Min(cs.n, Len(wcol)), Len(cs.gates))
    IN  [j \in 1..k |-> fmul(cs.gates[j], wcol[j])]

\* lw: the last witness column, masked by the lookup selector of each gate
sortedset_lw(cs, wcol) ==
    LET k == Min(Min(cs.n - 1, Len(wcol)), Len(cs.gates))
    IN  [j \in 1..k |-> fmul(cs.gates[j], wcol[j])]

\* s: lw extended by the table, sorted
sortedset_s(cs, wcol) == sort_unstable(sortedset_lw(cs, wcol) \o cs.table1)

\* s[n - 1] and s.drain(n..2 * n - 1) panic when s is too short
sortedset_panics(cs, wcol) == Len(sortedset_s(cs, wcol)) < 2 * cs.n - 1

\* a drain that starts one element early: n-1..2n-2
sortedset_h_early(cs, s) == <<s[cs.n]>> \o SubSeq(s, cs.n, 2 * cs.n - 2)

\* h: s[n - 1] followed by the drained range n..2n-1 of s
sortedset_h(cs, s) == <<s[cs.n]>> \o SubSeq(s, cs.n + 1, 2 * cs.n - 1)

\* what is left of s after the drain
sortedset_drained(cs, s) == SubSeq(s, 1, cs.n) \o SubSeq(s, 2 * cs.n, Len(s))

tbllkp_sortedset(cs, wcol) ==
    LET s == sortedset_s(cs, wcol)
    IN  [l  |-> <<0>>,
         lw |-> sortedset_lw(cs, wcol),
         h1 |-> sortedset_drained(cs, s),
         h2 |-> sortedset_h(cs, s)]

(***************************************************************************)
(* tbllkp_aggreg                                                           *)
(***************************************************************************)
\* ark_ff::fields::batch_inversion: the running products of the nonzero
\* entries, one inversion, and the backward pass; zero entries stay zero
RECURSIVE batch_prod(_, _)
batch_prod(v, tmp) ==
    IF v = <<>> THEN <<>>
    ELSE IF Head(v) = 0 THEN batch_prod(Tail(v), tmp)
    ELSE <<fmul(tmp, Head(v))>> \o batch_prod(Tail(v), fmul(tmp, Head(v)))

\* backward pass over v[1..i]; prod holds the running products not yet used
RECURSIVE batch_back(_, _, _, _)
batch_back(v, i, prod, tmp) ==
    IF i = 0 THEN v
    ELSE IF v[i] = 0 THEN batch_back(v, i - 1, prod, tmp)
    ELSE LET s == IF Len(prod) >= 2 THEN prod[Len(prod) - 1] ELSE fone
         IN  batch_back([v EXCEPT ![i] = fmul(tmp, s)], i - 1,
                        SubSeq(prod, 1, Len(prod) - 1), fmul(tmp, v[i]))

\* a batch inversion without the backward pass: every nonzero entry gets
\* the inverse of the product of all of them
batch_inversion_no_unwind(v) ==
    LET prod == batch_prod(v, fone)
        tmp  == IF prod = <<>> THEN fone ELSE finverse(prod[Len(prod)])
    IN  [i \in 1..Len(v) |-> IF v[i] = 0 THEN 0 ELSE tmp]

batch_inversion(v) ==
    LET prod == batch_prod(v, fone)
        tmp  == IF prod = <<>> THEN fone ELSE finverse(prod[Len(prod)])
    IN  batch_back(v, Len(v), prod, tmp)

aggreg_beta1(o) == fadd(fone, o.beta2)
aggreg_gammabeta1(o) == fmul(aggreg_beta1(o), o.gamma2)

\* first pass: z[j + 1] = the two denominator factors of row j
aggreg_denoms(cs, ev, o) ==
    [i \in 1..cs.n |->
        IF i = 1 THEN fone
        ELSE LET j == i - 1
             IN  fmul(fadd(fadd(aggreg_gammabeta1(o), ev.h1[j]),
                           fmul(o.beta2, ev.h1[j + 1])),
                      fadd(fadd(aggreg_gammabeta1(o), ev.h2[j]),
                           fmul(o.beta2, ev.h2[j + 1])))]

\* the numerator of row j (1-based)
aggreg_numer(cs, ev, o, j) ==
    fmul(fmul(aggreg_beta1(o), fadd(o.gamma2, ev.lw[j])),
         fadd(fadd(aggreg_gammabeta1(o), cs.table1[j]),
              fmul(o.beta2, cs.table1[j + 1])))

\* a second pass that multiplies by the numerator only, without the running
\* product z[j]
RECURSIVE aggreg_accum_no_carry(_, _, _, _, _)
aggreg_accum_no_carry(cs, ev, o, z, j) ==
    IF j > cs.n - 1 THEN z
    ELSE aggreg_accum_no_carry(cs, ev, o,
            [z EXCEPT ![j + 1] = fmul(z[j + 1], aggreg_numer(cs, ev, o, j))],
            j + 1)

\* second pass: z[j + 1] *= z[j] * numerator, for j = 1 .. n-1 in this order
RECURSIVE aggreg_accum(_, _, _, _, _)
aggreg_accum(cs, ev, o, z, j) ==
    IF j > cs.n - 1 THEN z
    ELSE aggreg_accum(cs, ev, o,
            [z EXCEPT ![j + 1] =
                fmul(z[j + 1], fmul(z[j], aggreg_numer(cs, ev, o, j)))],
            j + 1)

aggreg_z(cs, ev, o) ==
    LET d   == aggreg_denoms(cs, ev, o)
        inv == <<d[1]>> \o batch_inversion(SubSeq(d, 2, cs.n))
    IN  aggreg_accum(cs, ev, o, inv, 1)

\* a terminal check that looks at z[0] instead of z[n - 1]
aggreg_fails_first(cs, z) == z[1] # fone

\* the terminal check z[n - 1] != F::one()
aggreg_fails(cs, z) == z[cs.n] # fone

\* the value tbllkp_aggreg returns, r being the polynomial drawn from rng
tbllkp_aggreg(cs, ev, o, r) ==
    LET z == aggreg_z(cs, ev, o)
    IN  IF aggreg_fails(cs, z)
        THEN [tag |-> "Err", err |-> "ProofCreation"]
        ELSE [tag |-> "Ok", evals |-> z, blind |-> r]

(***************************************************************************)
(* Polynomials over F (ark_poly DensePolynomial): the sequence of the      *)
(* coefficients, lowest degree first, without trailing zeros; <<>> is the  *)
(* zero polynomial.                                                        *)
(***************************************************************************)
Max(a, b) == IF a > b THEN a ELSE b

fneg(a) == (P - a) % P
fsub(a, b) == fadd(a, fneg(b))

RECURSIVE fsum(_)
fsum(s) == IF s = <<>> THEN 0 ELSE fadd(Head(s), fsum(Tail(s)))

\* DensePolynomial::from_coefficients_vec: trailing zeros are dropped
RECURSIVE from_coefficients(_)
from_coefficients(c) ==
    IF c = <<>> THEN <<>>
    ELSE IF c[Len(c)] = 0 THEN from_coefficients(SubSeq(c, 1, Len(c) - 1))
    ELSE c

coeff(p, i) == IF i <= Len(p) THEN p[i] ELSE 0

poly_add(a, b) ==
    from_coefficients(
        [i \in 1..Max(Len(a), Len(b)) |-> fadd(coeff(a, i), coeff(b, i))])

poly_sub(a, b) ==
    from_coefficients(
        [i \in 1..Max(Len(a), Len(b)) |-> fsub(coeff(a, i), coeff(b, i))])

\* PolyUtils::scale
poly_scale(a, k) == from_coefficients([i \in 1..Len(a) |-> fmul(a[i], k)])

\* Polynomial::evaluate
RECURSIVE poly_evaluate(_, _)
poly_evaluate(p, x) ==
    IF p = <<>> THEN 0
    ELSE fadd(Head(p), fmul(x, poly_evaluate(Tail(p), x)))

\* the generator of the multiplicative subgroup of size n of F
is_generator(w, n) ==
    /\ fpow(w, n) = fone
    /\ \A k \in 1..(n - 1) : fpow(w, k) # fone

group_gen(n) == CHOOSE w \in F : is_generator(w, n)

\* the elements 1, w, w^2, .. of the domain of size n
domain_elements(n) == [i \in 1..n |-> fpow(group_gen(n), i - 1)]

\* Evaluations::interpolate over the domain of size n; evaluations that
\* are missing count as zero
interpolate(ev, n) ==
    LET winv == finverse(group_gen(n))
        ninv == finverse(n % P)
    IN  from_coefficients(
            [k \in 1..n |->
                fmul(ninv,
                     fsum([j \in 1..n |->
                            fmul(coeff(ev, j),
                                 fpow(winv, ((j - 1) * (k - 1)) % n))]))])

\* DensePolynomial::mul_by_vanishing_poly: p * (x^n - 1)
mul_by_vanishing_poly(p, n) ==
    from_coefficients(
        [i \in 1..(IF p = <<>> THEN 0 ELSE Len(p) + n) |->
            fsub(IF i > n THEN coeff(p, i - n) ELSE 0, coeff(p, i))])

\* the long division of the remainder r by d, q being the quotient so far
RECURSIVE long_division(_, _, _)
long_division(q, r, d) ==
    IF Len(r) < Len(d) THEN [tag |-> "Some", q |-> from_coefficients(q), r |-> r]
    ELSE LET k == Len(r) - Len(d)
             c == fmul(r[Len(r)], finverse(d[Len(d)]))
             rest == [i \in 1..Len(r) |->
                        IF i > k THEN fsub(r[i], fmul(c, d[i - k])) ELSE r[i]]
         IN  long_division([q EXCEPT ![k + 1] = c],
                           from_coefficients(rest), d)

\* DenseOrSparsePolynomial::divide_with_q_and_r: None for a zero divisor,
\* else the quotient and the remainder
divide_with_q_and_r(f, d) ==
    IF d = <<>> THEN [tag |-> "None"]
    ELSE IF Len(f) < Len(d) THEN [tag |-> "Some", q |-> <<>>, r |-> f]
    ELSE long_division([i \in 1..(Len(f) - Len(d) + 1) |-> 0], f, d)

(***************************************************************************)
(* tbllkp_quot                                                             *)
(***************************************************************************)
\* ConstraintSystem.sid: the elements of the domain d1
sid(cs) == domain_elements(cs.n)

\* ConstraintSystem.l08 and l18: the evaluations of the polynomials 1 and x,
\* taken here at the points of d1
l08(cs) == [j \in 1..cs.n |-> fone]
l18(cs) == [j \in 1..cs.n |-> sid(cs)[j]]

\* the LookupPolys of a proof: l and the interpolations of lw, h1, h2
lookup_polys(cs, ev, l) ==
    [l  |-> l,
     lw |-> interpolate(ev.lw, cs.n),
     h1 |-> interpolate(ev.h1, cs.n),
     h2 |-> interpolate(ev.h2, cs.n)]

\* a blinding that adds the random polynomial itself, not its multiple of
\* the vanishing polynomial
aggreg_poly_unmasked_blind(cs, res) ==
    poly_add(interpolate(res.evals, cs.n), from_coefficients(res.blind))

\* the polynomial tbllkp_aggreg returns: the interpolation of z blinded by
\* a random multiple of the vanishing polynomial
aggreg_poly(cs, res) ==
    poly_add(interpolate(res.evals, cs.n),
             mul_by_vanishing_poly(from_coefficients(res.blind), cs.n))

\* alpha is the slice alpha[0..3] of the source, alpha[k] being alpha[k+1] here
\* first boundary division: alpha[1] * (l - 1) by x - 1
quot_bnd1(cs, polys, alpha) ==
    divide_with_q_and_r(
        poly_scale(poly_sub(polys.l, <<fone>>), alpha[2]),
        from_coefficients(<<fneg(fone), fone>>))

\* h2w: the coefficients of h2 scaled by the powers of w, that is h2(w x)
quot_h2w(cs, polys) ==
    LET w == sid(cs)
    IN  from_coefficients(
            [i \in 1..Min(Len(polys.h2), Len(w)) |-> fmul(polys.h2[i], w[i])])

\* second boundary division:
\* alpha[2] * (l - 1) + alpha[3] * (h1 - h2w) by x - sid[n - 1]
quot_bnd2(cs, polys, alpha) ==
    divide_with_q_and_r(
        poly_add(poly_scale(poly_sub(polys.l, <<fone>>), alpha[3]),
                 poly_scale(poly_sub(polys.h1, quot_h2w(cs, polys)), alpha[4])),
        from_coefficients(<<fneg(sid(cs)[cs.n]), fone>>))

\* the first component of the result, at the points of d1: the row
\* identity times the mask l18 - l08 * sid[n - 1], scaled by alpha[0]
quot_rows(cs, polys, o, alpha) ==
    LET w      == sid(cs)
        one    == l08(cs)
        x      == l18(cs)
        gen    == group_gen(cs.n)
        this(f, j) == poly_evaluate(f, w[j])
        next(f, j) == poly_evaluate(f, fmul(w[j], gen))
        nx(j)  == IF j = cs.n THEN 1 ELSE j + 1
        beta1  == fadd(fone, o.beta2)
        gammabeta1 == fmul(beta1, o.gamma2)
    IN  [j \in 1..cs.n |->
            fmul(fmul(fsub(
                fmul(fmul(fmul(this(polys.l, j), beta1),
                          fadd(fmul(one[j], o.gamma2), this(polys.lw, j))),
                     fadd(gammabeta1,
                          fadd(cs.table1[j], fmul(cs.table1[nx(j)], o.beta2)))),
                fmul(fmul(next(polys.l, j),
                          fadd(gammabeta1,
                               fadd(this(polys.h1, j),
                                    fmul(next(polys.h1, j), o.beta2)))),
                     fadd(gammabeta1,
                          fadd(this(polys.h2, j),
                               fmul(next(polys.h2, j), o.beta2))))),
                fsub(x[j], fmul(one[j], w[cs.n]))),
                alpha[1])]

\* a tbllkp_quot that does not look at the remainder of the second division
tbllkp_quot_one_check(cs, polys, o, alpha) ==
    LET b1 == quot_bnd1(cs, polys, alpha)
        b2 == quot_bnd2(cs, polys, alpha)
    IN  IF b1.tag = "None" \/ b1.r # <<>>
        THEN [tag |-> "Err", err |-> "PolyDivision"]
        ELSE IF b2.tag = "None"
        THEN [tag |-> "Err", err |-> "PolyDivision"]
        ELSE [tag |-> "Ok", rows |-> quot_rows(cs, polys, o, alpha),
              bnd |-> poly_add(b1.q, b2.q)]

tbllkp_quot(cs, polys, o, alpha) ==
    LET b1 == quot_bnd1(cs, polys, alpha)
        b2 == quot_bnd2(cs, polys, alpha)
    IN  IF b1.tag = "None" \/ b1.r # <<>>
        THEN [tag |-> "Err", err |-> "PolyDivision"]
        ELSE IF b2.tag = "None" \/ b2.r # <<>>
        THEN [tag |-> "Err", err |-> "PolyDivision"]
        ELSE [tag |-> "Ok", rows |-> quot_rows(cs, polys, o, alpha),
              bnd |-> poly_add(b1.q, b2.q)]

(***************************************************************************)
(* The caller of the lookup functions.                                     *)
(***************************************************************************)
LInit ==
    /\ \E n \in DomainSizes :
       \E t \in SeqsOfLen(TableVals, n) :
       \E g \in {n - 2, n} : \E a \in 0..Min(g, n - 1) :
            lcs = [n |-> n, table1 |-> t, gates |-> GatesOf(g, a)]
    /\ lkpevl = "none"
    /\ loracles = "none"
    /\ lz = <<>>
    /\ lres = [tag |-> "none"]
    /\ lalpha = <<>>
    /\ lquot = [tag |-> "none"]
    /\ lpc = "start"

\* a call of tbllkp_sortedset that returns
SortedSet ==
    /\ lpc = "start"
    /\ \E w \in SeqsOfLen(WitVals, lcs.n) :
        /\ ~sortedset_panics(lcs, w)
        /\ lkpevl' = tbllkp_sortedset(lcs, w)
    /\ lpc' = "sorted"
    /\ UNCHANGED <<lcs, loracles, lz, lres, lalpha, lquot>>
    /\ UNCHANGED <<pvars, cur, others, computed>>

\* a call of tbllkp_sortedset that panics on s[n - 1] or on the drain
SortedSetPanic ==
    /\ lpc = "start"
    /\ \E w \in SeqsOfLen(WitVals, lcs.n) : sortedset_panics(lcs, w)
    /\ lpc' = "panic"
    /\ UNCHANGED <<lcs, lkpevl, loracles, lz, lres, lalpha, lquot>>
    /\ UNCHANGED <<pvars, cur, others, computed>>

\* a call of tbllkp_aggreg on the LookupEvals of tbllkp_sortedset
Aggreg ==
    /\ lpc = "sorted"
    /\ \E b \in ChalVals, g \in ChalVals, r \in RandPolys :
        LET o   == [beta2 |-> b, gamma2 |-> g]
            z   == aggreg_z(lcs, lkpevl, o)
            res == tbllkp_aggreg(lcs, lkpevl, o, r)
        IN  /\ loracles' = o
            /\ lz' = z
            /\ lres' = res
            /\ lkpevl' = IF res.tag = "Ok"
                         THEN [lkpevl EXCEPT !.l = z]
                         ELSE lkpevl
    /\ lpc' = "aggregated"
    /\ UNCHANGED <<lcs, lalpha, lquot>>
    /\ UNCHANGED <<pvars, cur, others, computed>>

\* the alpha powers tbllkp_quot is called with: alpha[0..3]
Alphas == {<<2, 4, 3, 1>>, <<1, 0, 2, 3>>}

\* the LookupPolys the caller hands to tbllkp_quot: l is the polynomial
\* tbllkp_aggreg returned, or the interpolation of lkpevl.l as
\* tbllkp_sortedset left it when tbllkp_aggreg has not been called
QuotPolys ==
    lookup_polys(lcs, lkpevl,
        IF lres.tag = "Ok" THEN aggreg_poly(lcs, lres)
        ELSE interpolate(lkpevl.l, Len(lkpevl.l)))

\* RandomOracles::zero(): the oracles in which no challenge is set yet
OraclesZero == [beta2 |-> 0, gamma2 |-> 0]

\* a call of tbllkp_quot, after tbllkp_aggreg returned Ok or right after
\* tbllkp_sortedset
Quot ==
    /\ \/ lpc = "sorted"
       \/ lpc = "aggregated" /\ lres.tag = "Ok"
    /\ \E alpha \in Alphas :
        LET o == IF lpc = "sorted" THEN OraclesZero ELSE loracles
        IN  /\ lalpha' = alpha
            /\ lquot' = tbllkp_quot(lcs, QuotPolys, o, alpha)
    /\ lpc' = "quotient"
    /\ UNCHANGED <<lcs, lkpevl, loracles, lz, lres>>
    /\ UNCHANGED <<pvars, cur, others, computed>>

\* the lookup functions are not being called
LIdle ==
    /\ lcs = "none"
    /\ lkpevl = "none"
    /\ loracles = "none"
    /\ lz = <<>>
    /\ lres = [tag |-> "none"]
    /\ lalpha = <<>>
    /\ lquot = [tag |-> "none"]
    /\ lpc = "idle"

(***************************************************************************)
(* ProverProof::create                                                     *)
(***************************************************************************)
\* RandomOracles::zero()
OracleNames ==
    {"beta", "gamma", "alpha_chal", "alpha", "zeta_chal", "zeta",
     "v_chal", "v", "u_chal", "u"}

RandomOracles_zero == [o \in OracleNames |-> [chal |-> "zero"]]

\* no RandomOracles exist before the call creates them
NoOracles == [o \in OracleNames |-> [chal |-> "none"]]

\* no commitment has been made
NoComms ==
    [w_comm |-> [poly |-> "none"], z_comm |-> [poly |-> "none"],
     t_comm |-> [poly |-> "none"]]

\* sponge.absorb_g / absorb of the value named what; arg tells the value
\* apart: the column of a wire commitment, the number of group elements of
\* a part of the quotient commitment, the sponge a digest was taken of
absorb(sponge, what, arg) ==
    Append(sponge, [op |-> "absorb", what |-> what, arg |-> arg])

\* sponge.absorb_g of the commitment c: the sponge absorbs the group
\* elements of c, so what it gives afterwards depends on them
absorb_g(sponge, what, arg, c) ==
    Append(sponge, [op |-> "absorb", what |-> what, arg |-> arg, val |-> c])

\* sponge.challenge(): the value squeezed is a function of all the sponge
\* has absorbed and squeezed so far
challenge_value(sponge) == [chal |-> "squeezed", after |-> sponge]
challenge(sponge, name) ==
    Append(sponge, [op |-> "challenge", what |-> name])

\* ScalarChallenge::to_field with srs.endo_r
to_field(c) == [chal |-> "to_field", of |-> c]

\* fq_sponge.digest()
digest(sponge) == [digest_of |-> sponge]

\* absorbing w_comm[i].0.unshifted for i = k .. COLUMNS, in this order
RECURSIVE absorb_w_comm(_, _, _)
absorb_w_comm(sponge, k, c) ==
    IF k > COLUMNS THEN sponge
    ELSE absorb_w_comm(absorb_g(sponge, "w_comm", k, c), k + 1, c)

\* thread_rng(): the generator of the thread, seeded by the operating
\* system with s
thread_rng(s) == [seed |-> s, drawn |-> 0]

\* the generator after k more values were drawn from it
draw(r, k) == [r EXCEPT !.drawn = @ + k]

\* the computation what, which the model does not carry out, gives the
\* result v on the arguments args: v is the result it gave before on
\* these arguments, if it was run on them
Computes(what, args, v) ==
    /\ \A c \in computed[what] : c.args = args => c.result = v
    /\ computed' = [computed EXCEPT
                        ![what] = @ \cup {[args |-> args, result |-> v]}]

\* nothing was computed yet
NothingComputed == [perm_aggreg |-> {}, quotient |-> {}, commit_t |-> {}]

\* (index.max_quot_size + index.max_poly_size - 1) / index.max_poly_size
max_t_size(idx) ==
    (idx.max_quot_size + idx.max_poly_size - 1) \div idx.max_poly_size

\* the shapes commit(&t, Some(max_quot_size), rng) can give t_comm:
\* the number of unshifted chunks and the shifted part
TCommShapes ==
    [unshifted : 0..MaxChunks, shifted : {"None", "Zero", "Point"}]

\* the witnesses handed to create for a domain of size n: every column of
\* length n, or one column one shorter or one longer
WitnessLens(n) ==
    {[c \in 1..COLUMNS |-> n]} \cup
    {[c \in 1..COLUMNS |-> IF c = b THEN l ELSE n] :
        b \in 1..COLUMNS, l \in {n - 1, n + 1}}

\* the steps of create in the order the source performs them
Step(name) == ops' = Append(ops, name)

Fail(e) ==
    /\ result' = [tag |-> "Err", err |-> e]
    /\ pc' = "done"

Panic ==
    /\ result' = [tag |-> "panic"]
    /\ pc' = "done"

\* a length check that looks at the first column only
CheckWitness_first_column ==
    /\ pc = "start"
    /\ IF witness.lens[1] # index.n
       THEN /\ Fail("WitnessCsInconsistent")
            /\ UNCHANGED ops
       ELSE /\ pc' = "setup"
            /\ Step("witness_bound")
            /\ UNCHANGED result
    /\ UNCHANGED <<lvars, cur, others>>
    /\ UNCHANGED <<rng, computed, index, witness, oracles, fq_sponge,
                   fr_sponge, comms, quot>>

\* the length check of every witness column against the domain size
CheckWitness ==
    /\ pc = "start"
    /\ IF \E c \in 1..COLUMNS : witness.lens[c] # index.n
       THEN /\ Fail("WitnessCsInconsistent")
            /\ UNCHANGED ops
       ELSE /\ pc' = "setup"
            /\ Step("witness_bound")
            /\ UNCHANGED result
    /\ UNCHANGED <<lvars, cur, others>>
    /\ UNCHANGED <<rng, computed, index, witness, oracles, fq_sponge,
                   fr_sponge, comms, quot>>

\* the oracles, the base-field sponge and the public input polynomial;
\* witness[0][0..index.cs.public] panics when public exceeds the column
Setup ==
    /\ pc = "setup"
    /\ oracles' = RandomOracles_zero
    /\ fq_sponge' = <<>>
    /\ IF index.public > witness.lens[1]
       THEN /\ Panic
            /\ UNCHANGED ops
       ELSE /\ pc' = "witness_polys"
            /\ Step("interpolate_public")
            /\ UNCHANGED result
    /\ UNCHANGED <<lvars, cur, others>>
    /\ UNCHANGED <<rng, computed, index, witness, fr_sponge, comms, quot>>

\* wire commitments blinded from a generator that is seeded anew
CommitWitness_reseeded ==
    /\ pc = "witness_polys"
    /\ \E s \in 0..MaxSeed :
        comms' = [comms EXCEPT !.w_comm =
                    [poly |-> "w", uses |-> {}, blind |-> thread_rng(s)]]
    /\ rng' = draw(rng, COLUMNS)
    /\ ops' = ops \o <<"interpolate_w", "commit_w">>
    /\ pc' = "beta_gamma"
    /\ UNCHANGED <<lvars, cur, others>>
    /\ UNCHANGED <<computed, index, witness, oracles, fq_sponge, fr_sponge,
                   quot, result>>

\* the witness polynomials and their commitments
CommitWitness ==
    /\ pc = "witness_polys"
    /\ comms' = [comms EXCEPT !.w_comm =
                    [poly |-> "w", uses |-> {}, blind |-> rng]]
    /\ rng' = draw(rng, COLUMNS)
    /\ ops' = ops \o <<"interpolate_w", "commit_w">>
    /\ pc' = "beta_gamma"
    /\ UNCHANGED <<lvars, cur, others>>
    /\ UNCHANGED <<computed, index, witness, oracles, fq_sponge, fr_sponge,
                   quot, result>>

\* absorb the public input commitment and the wire commitments, sample
\* beta and gamma
BetaGamma ==
    /\ pc = "beta_gamma"
    /\ LET s1 == absorb(fq_sponge, "public_comm", 0)
           s2 == absorb_w_comm(s1, 1, comms.w_comm)
           s3 == challenge(s2, "beta")
           s4 == challenge(s3, "gamma")
       IN  /\ oracles' = [oracles EXCEPT !.beta = challenge_value(s2),
                                         !.gamma = challenge_value(s3)]
           /\ fq_sponge' = s4
    /\ Step("beta_gamma")
    /\ pc' = "perm_aggreg"
    /\ UNCHANGED <<lvars, cur, others>>
    /\ UNCHANGED <<rng, computed, index, witness, fr_sponge, comms, quot,
                   result>>

\* index.cs.perm_aggreg(witness, &oracles, rng)? and the commitment to z;
\* perm_aggreg fails only on a witness that does not satisfy the circuit
PermAggreg ==
    /\ pc = "perm_aggreg"
    /\ \E ok \in BOOLEAN :
        /\ witness.sat => ok
        /\ Computes("perm_aggreg", <<witness, oracles, rng>>, ok)
        /\ IF ok
           THEN /\ comms' = [comms EXCEPT !.z_comm =
                        [poly |-> "z", uses |-> {"beta", "gamma"},
                         beta |-> oracles.beta, gamma |-> oracles.gamma,
                         blind |-> rng]]
                /\ rng' = draw(rng, 2)
                /\ ops' = ops \o <<"perm_aggreg", "commit_z">>
                /\ pc' = "alpha"
                /\ UNCHANGED result
           ELSE /\ Fail("ProofCreation")
                /\ UNCHANGED <<comms, ops, rng>>
    /\ UNCHANGED <<lvars, cur, others>>
    /\ UNCHANGED <<index, witness, oracles, fq_sponge, fr_sponge, quot>>

\* alpha queried before the z commitment is absorbed
Alpha_before_absorb ==
    /\ pc = "alpha"
    /\ LET s1 == challenge(fq_sponge, "alpha")
           s2 == absorb_g(s1, "z_comm", 0, comms.z_comm)
       IN  /\ oracles' = [oracles EXCEPT
                            !.alpha_chal = challenge_value(fq_sponge),
                            !.alpha = to_field(challenge_value(fq_sponge))]
           /\ fq_sponge' = s2
    /\ ops' = ops \o <<"alpha", "alpha_powers">>
    /\ pc' = "evaluate"
    /\ UNCHANGED <<lvars, cur, others>>
    /\ UNCHANGED <<rng, computed, index, witness, fr_sponge, comms, quot,
                   result>>

\* absorb the z commitment, query alpha and derive the alpha powers
Alpha ==
    /\ pc = "alpha"
    /\ LET s1 == absorb_g(fq_sponge, "z_comm", 0, comms.z_comm)
           s2 == challenge(s1, "alpha")
       IN  /\ oracles' = [oracles EXCEPT
                            !.alpha_chal = challenge_value(s1),
                            !.alpha = to_field(challenge_value(s1))]
           /\ fq_sponge' = s2
    /\ ops' = ops \o <<"alpha", "alpha_powers">>
    /\ pc' = "evaluate"
    /\ UNCHANGED <<lvars, cur, others>>
    /\ UNCHANGED <<rng, computed, index, witness, fr_sponge, comms, quot,
                   result>>

\* index.cs.evaluate(&w, &z)
Evaluate ==
    /\ pc = "evaluate"
    /\ Step("evaluate")
    /\ pc' = "quotient"
    /\ UNCHANGED <<lvars, cur, others>>
    /\ UNCHANGED <<rng, computed, index, witness, oracles, fq_sponge,
                   fr_sponge, comms, quot, result>>

\* the assembly of the quotient in the order of the source: t4 and t8 are
\* summed, interpolated and added, genp and posp are added, the total is
\* divided by the vanishing polynomial, the remainder is checked, and bnd is
\* added to the quotient of the division
quotient_steps ==
    <<"sum_t4", "sum_t8", "interpolate_t4", "interpolate_t8", "add_genp_posp",
      "divide_by_vanishing_poly", "check_remainder", "add_bnd">>

\* a quotient step that adds bnd to the total before the division
Quotient_bnd_before_division ==
    /\ pc = "quotient"
    /\ \E permok \in BOOLEAN, d \in {"none", "remainder", "exact"} :
        /\ witness.sat => (permok /\ d = "exact")
        /\ Computes("quotient", <<witness, comms.z_comm, oracles>>,
                    IF permok THEN d ELSE "not_done")
        /\ IF ~permok \/ d # "exact"
           THEN /\ Fail("PolyDivision")
                /\ quot' = [division |-> IF permok THEN d ELSE "not_done"]
                /\ UNCHANGED ops
           ELSE /\ quot' = [division |-> d,
                            dividend |-> {"t4", "t8", "genp", "posp", "bnd"},
                            divisor |-> "vanishing",
                            added |-> {},
                            steps |-> <<"sum_t4", "sum_t8", "interpolate_t4",
                                        "interpolate_t8", "add_genp_posp",
                                        "add_bnd", "divide_by_vanishing_poly",
                                        "check_remainder">>,
                            alpha |-> oracles.alpha]
                /\ Step("quotient")
                /\ pc' = "commit_t"
                /\ UNCHANGED result
    /\ UNCHANGED <<lvars, cur, others>>
    /\ UNCHANGED <<rng, index, witness, oracles, fq_sponge, fr_sponge, comms>>

\* a quotient step that does not look at the remainder of the division
Quotient_no_remainder_check ==
    /\ pc = "quotient"
    /\ \E permok \in BOOLEAN, d \in {"none", "remainder", "exact"} :
        /\ witness.sat => (permok /\ d = "exact")
        /\ Computes("quotient", <<witness, comms.z_comm, oracles>>,
                    IF permok THEN d ELSE "not_done")
        /\ IF ~permok \/ d = "none"
           THEN /\ Fail("PolyDivision")
                /\ quot' = [division |-> IF permok THEN d ELSE "not_done"]
                /\ UNCHANGED ops
           ELSE /\ quot' = [division |-> d,
                            dividend |-> {"t4", "t8", "genp", "posp"},
                            divisor |-> "vanishing",
                            added |-> {"bnd"},
                            steps |-> quotient_steps,
                            alpha |-> oracles.alpha]
                /\ Step("quotient")
                /\ pc' = "commit_t"
                /\ UNCHANGED result
    /\ UNCHANGED <<lvars, cur, others>>
    /\ UNCHANGED <<rng, index, witness, oracles, fq_sponge, fr_sponge, comms>>

\* the quotient: perm_quot(..)?, the gate contributions, the division by
\* the vanishing polynomial with its remainder check, and t += bnd.
\* d is the outcome of divide_by_vanishing_poly: None, a nonzero remainder
\* or an exact division; a satisfying witness divides exactly
Quotient ==
    /\ pc = "quotient"
    /\ \E permok \in BOOLEAN, d \in {"none", "remainder", "exact"} :
        /\ witness.sat => (permok /\ d = "exact")
        /\ Computes("quotient", <<witness, comms.z_comm, oracles>>,
                    IF permok THEN d ELSE "not_done")
        /\ IF ~permok \/ d # "exact"
           THEN /\ Fail("PolyDivision")
                /\ quot' = [division |-> IF permok THEN d ELSE "not_done"]
                /\ UNCHANGED ops
           ELSE /\ quot' = [division |-> d,
                            dividend |-> {"t4", "t8", "genp", "posp"},
                            divisor |-> "vanishing",
                            added |-> {"bnd"},
                            steps |-> quotient_steps,
                            alpha |-> oracles.alpha]
                /\ Step("quotient")
                /\ pc' = "commit_t"
                /\ UNCHANGED result
    /\ UNCHANGED <<lvars, cur, others>>
    /\ UNCHANGED <<rng, index, witness, oracles, fq_sponge, fr_sponge, comms>>

\* a commitment to t that records the size of t in the Index
CommitT_resizes_index ==
    /\ pc = "commit_t"
    /\ \E shape \in TCommShapes :
        /\ Computes("commit_t", <<witness, quot, rng>>, shape)
        /\ comms' = [comms EXCEPT !.t_comm =
                    [poly |-> "t", uses |-> {"beta", "gamma", "alpha"},
                     unshifted |-> shape.unshifted,
                     shifted |-> shape.shifted,
                     blind |-> rng]]
        /\ index' = [index EXCEPT !.max_quot_size =
                        shape.unshifted * index.max_poly_size]
    /\ rng' = draw(rng, 1)
    /\ Step("commit_t")
    /\ pc' = "zeta"
    /\ UNCHANGED <<lvars, cur, others>>
    /\ UNCHANGED <<witness, oracles, fq_sponge, fr_sponge, quot, result>>

\* commit(&t, Some(index.max_quot_size), rng)
CommitT ==
    /\ pc = "commit_t"
    /\ \E shape \in TCommShapes :
        /\ Computes("commit_t", <<witness, quot, rng>>, shape)
        /\ comms' = [comms EXCEPT !.t_comm =
                    [poly |-> "t", uses |-> {"beta", "gamma", "alpha"},
                     unshifted |-> shape.unshifted,
                     shifted |-> shape.shifted,
                     blind |-> rng]]
    /\ rng' = draw(rng, 1)
    /\ Step("commit_t")
    /\ pc' = "zeta"
    /\ UNCHANGED <<lvars, cur, others>>
    /\ UNCHANGED <<index, witness, oracles, fq_sponge, fr_sponge, quot,
                   result>>

\* the quotient commitment absorbed as it is, without the dummy padding
Zeta_no_padding ==
    /\ pc = "zeta"
    /\ LET tc == comms.t_comm
           m  == max_t_size(index)
           s1 == absorb_g(fq_sponge, "t_comm.unshifted", tc.unshifted, tc)
           s3 == IF tc.shifted = "Point"
                 THEN absorb_g(s1, "t_comm.shifted", 1, tc)
                 ELSE absorb(s1, "dummy", 1)
           s4 == challenge(s3, "zeta")
       IN  IF tc.unshifted > m
           THEN /\ fq_sponge' = s1
                /\ Panic
                /\ UNCHANGED <<oracles, ops>>
           ELSE IF tc.shifted = "None"
           THEN /\ fq_sponge' = s1
                /\ Panic
                /\ UNCHANGED <<oracles, ops>>
           ELSE /\ fq_sponge' = s4
                /\ oracles' = [oracles EXCEPT
                                !.zeta_chal = challenge_value(s3),
                                !.zeta = to_field(challenge_value(s3))]
                /\ Step("zeta")
                /\ pc' = "eval_zeta"
                /\ UNCHANGED result
    /\ UNCHANGED <<lvars, cur, others>>
    /\ UNCHANGED <<rng, computed, index, witness, fr_sponge, comms, quot>>

\* absorb t_comm padded with the dummy point and sample zeta;
\* max_t_size - unshifted.len() underflows when there are more chunks than
\* max_t_size, and shifted.unwrap() panics on None
Zeta ==
    /\ pc = "zeta"
    /\ LET tc == comms.t_comm
           m  == max_t_size(index)
           s1 == absorb_g(fq_sponge, "t_comm.unshifted", tc.unshifted, tc)
           s2 == absorb(s1, "dummy", m - tc.unshifted)
           s3 == IF tc.shifted = "Point"
                 THEN absorb_g(s2, "t_comm.shifted", 1, tc)
                 ELSE absorb(s2, "dummy", 1)
           s4 == challenge(s3, "zeta")
       IN  IF tc.unshifted > m
           THEN /\ fq_sponge' = s1
                /\ Panic
                /\ UNCHANGED <<oracles, ops>>
           ELSE IF tc.shifted = "None"
           THEN /\ fq_sponge' = s2
                /\ Panic
                /\ UNCHANGED <<oracles, ops>>
           ELSE /\ fq_sponge' = s4
                /\ oracles' = [oracles EXCEPT
                                !.zeta_chal = challenge_value(s3),
                                !.zeta = to_field(challenge_value(s3))]
                /\ Step("zeta")
                /\ pc' = "eval_zeta"
                /\ UNCHANGED result
    /\ UNCHANGED <<lvars, cur, others>>
    /\ UNCHANGED <<rng, computed, index, witness, fr_sponge, comms, quot>>

\* the evaluations of the polynomials at zeta and zeta * omega
EvalZeta ==
    /\ pc = "eval_zeta"
    /\ Step("eval_zeta")
    /\ pc' = "linearize"
    /\ UNCHANGED <<lvars, cur, others>>
    /\ UNCHANGED <<rng, computed, index, witness, oracles, fq_sponge,
                   fr_sponge, comms, quot, result>>

\* the linearization left out
Linearize_skipped ==
    /\ pc = "linearize"
    /\ pc' = "opening_chal"
    /\ UNCHANGED <<lvars, cur, others>>
    /\ UNCHANGED <<rng, computed, index, witness, oracles, fq_sponge,
                   fr_sponge, comms, quot, result, ops>>

\* the linearization polynomial f and its evaluations
Linearize ==
    /\ pc = "linearize"
    /\ Step("linearize")
    /\ pc' = "opening_chal"
    /\ UNCHANGED <<lvars, cur, others>>
    /\ UNCHANGED <<rng, computed, index, witness, oracles, fq_sponge,
                   fr_sponge, comms, quot, result>>

\* the scalar-field sponge: seeded with the digest of fq_sponge, absorbs
\* the evaluations at zeta and zeta * omega, then gives v and u
OpeningChallenges ==
    /\ pc = "opening_chal"
    /\ LET s1 == absorb(<<>>, "fq_digest", digest(fq_sponge))
           s2 == absorb(s1, "evals_zeta", oracles.zeta)
           s3 == absorb(s2, "evals_zeta_omega", oracles.zeta)
           s4 == challenge(s3, "v")
           s5 == challenge(s4, "u")
       IN  /\ fr_sponge' = s5
           /\ oracles' = [oracles EXCEPT
                            !.v_chal = challenge_value(s3),
                            !.v = to_field(challenge_value(s3)),
                            !.u_chal = challenge_value(s4),
                            !.u = to_field(challenge_value(s4))]
    /\ Step("opening_chal")
    /\ pc' = "open"
    /\ UNCHANGED <<lvars, cur, others>>
    /\ UNCHANGED <<rng, computed, index, witness, fq_sponge, comms, quot,
                   result>>

\* index.srs.get_ref().open(..)
Open ==
    /\ pc = "open"
    /\ Step("open")
    /\ rng' = draw(rng, 1)
    /\ pc' = "assemble"
    /\ UNCHANGED <<lvars, cur, others>>
    /\ UNCHANGED <<computed, index, witness, oracles, fq_sponge, fr_sponge,
                   comms, quot, result>>

\* Ok(Self { commitments, proof, evals, public, prev_challenges })
Assemble ==
    /\ pc = "assemble"
    /\ result' = [tag |-> "Ok",
                  commitments |-> comms,
                  proof |-> [v |-> oracles.v, u |-> oracles.u],
                  evals |-> <<oracles.zeta, oracles.zeta>>,
                  public |-> index.public]
    /\ Step("assemble")
    /\ pc' = "done"
    /\ UNCHANGED <<lvars, cur, others>>
    /\ UNCHANGED <<rng, computed, index, witness, oracles, fq_sponge,
                   fr_sponge, comms, quot>>

\* the prover is not running
PIdle ==
    /\ index = "none"
    /\ witness = "none"
    /\ oracles = NoOracles
    /\ fq_sponge = <<>>
    /\ fr_sponge = <<>>
    /\ comms = NoComms
    /\ quot = [division |-> "not_done"]
    /\ ops = <<>>
    /\ result = [tag |-> "none"]
    /\ pc = "idle"
    /\ rng = "none"

\* a call of create on some Index and some witness
PInit ==
    /\ \E n \in DomainSizes :
        /\ \E pub \in 0..(n + 1), q \in 1..MaxQuotSize, m \in 1..MaxPolySize :
            index = [n |-> n, public |-> pub, max_quot_size |-> q,
                     max_poly_size |-> m]
        /\ \E lens \in WitnessLens(n), sat \in BOOLEAN :
            witness = [lens |-> lens, sat |-> sat]
    /\ oracles = NoOracles
    /\ fq_sponge = <<>>
    /\ fr_sponge = <<>>
    /\ comms = NoComms
    /\ quot = [division |-> "not_done"]
    /\ ops = <<>>
    /\ result = [tag |-> "none"]
    /\ pc = "start"
    /\ rng = thread_rng(0)

(***************************************************************************)
(* The specification: a run is either a call of the two lookup functions   *)
(* on some constraint system, or a call of ProverProof::create.            *)
(***************************************************************************)
\* one call is running and there is no other
OneCall ==
    /\ cur = 1
    /\ others = <<>>
    /\ computed = NothingComputed

Init == ((LInit /\ PIdle) \/ (PInit /\ LIdle)) /\ OneCall

Next ==
    \/ SortedSet \/ SortedSetPanic \/ Aggreg
    \/ CheckWitness \/ Setup \/ CommitWitness \/ BetaGamma \/ PermAggreg
    \/ Alpha \/ Evaluate \/ Quotient \/ CommitT \/ Zeta \/ EvalZeta
    \/ Linearize \/ OpeningChallenges \/ Open \/ Assemble

Spec == Init /\ [][Next]_vars

(***************************************************************************)
(* The specification of the lookup quotient: a caller of tbllkp_sortedset, *)
(* tbllkp_aggreg and tbllkp_quot.  The tables of a domain larger than the  *)
(* smallest one are stored in nondecreasing order.                         *)
(***************************************************************************)
LInitQ ==
    /\ LInit
    /\ \/ \A m \in DomainSizes : lcs.n <= m
       \/ \A i \in 1..(lcs.n - 1) : lcs.table1[i] <= lcs.table1[i + 1]

InitQ == LInitQ /\ PIdle /\ OneCall

NextQ == SortedSet \/ SortedSetPanic \/ Aggreg \/ Quot

SpecQuot == InitQ /\ [][NextQ]_vars

(***************************************************************************)
(* Calls that run at the same time, each on a thread of its own, on one    *)
(* Index / ConstraintSystem: call 1 is a call of ProverProof::create, each *)
(* other call is a call of create or a caller of the lookup functions.     *)
(* The threads are interleaved at every step.                              *)
(***************************************************************************)
Seeds == 0..MaxSeed

\* the state of the call that is running
Context ==
    [witness |-> witness, oracles |-> oracles, fq_sponge |-> fq_sponge,
     fr_sponge |-> fr_sponge, comms |-> comms, quot |-> quot, ops |-> ops,
     result |-> result, pc |-> pc, rng |-> rng,
     lkpevl |-> lkpevl, loracles |-> loracles, lz |-> lz, lres |-> lres,
     lalpha |-> lalpha, lquot |-> lquot, lpc |-> lpc]

\* the state of a call of create on the witness w at its first step, on a
\* thread whose generator has the seed s
CreateCall(w, s) ==
    [witness |-> w, oracles |-> NoOracles, fq_sponge |-> <<>>,
     fr_sponge |-> <<>>, comms |-> NoComms,
     quot |-> [division |-> "not_done"], ops |-> <<>>,
     result |-> [tag |-> "none"], pc |-> "start", rng |-> thread_rng(s),
     lkpevl |-> "none", loracles |-> "none", lz |-> <<>>,
     lres |-> [tag |-> "none"], lalpha |-> <<>>, lquot |-> [tag |-> "none"],
     lpc |-> "idle"]

\* the state of a caller of the lookup functions before its first call
LookupCall ==
    [witness |-> "none", oracles |-> NoOracles, fq_sponge |-> <<>>,
     fr_sponge |-> <<>>, comms |-> NoComms,
     quot |-> [division |-> "not_done"], ops |-> <<>>,
     result |-> [tag |-> "none"], pc |-> "idle", rng |-> "none",
     lkpevl |-> "none", loracles |-> "none", lz |-> <<>>,
     lres |-> [tag |-> "none"], lalpha |-> <<>>, lquot |-> [tag |-> "none"],
     lpc |-> "start"]

\* the call with the state c has steps left
Runnable(c) ==
    \/ c.pc \notin {"idle", "done"}
    \/ c.lpc \in {"start", "sorted"}
    \/ c.lpc = "aggregated" /\ c.lres.tag = "Ok"

\* the thread of the call k is scheduled: the call that was running keeps
\* its state, the call k goes on from the state it had
Switch ==
    /\ \E k \in DOMAIN others :
        /\ Runnable(others[k])
        /\ cur' = k
        /\ others' = [j \in (DOMAIN others \ {k}) \cup {cur} |->
                        IF j = cur THEN Context ELSE others[j]]
        /\ witness' = others[k].witness
        /\ oracles' = others[k].oracles
        /\ fq_sponge' = others[k].fq_sponge
        /\ fr_sponge' = others[k].fr_sponge
        /\ comms' = others[k].comms
        /\ quot' = others[k].quot
        /\ ops' = others[k].ops
        /\ result' = others[k].result
        /\ pc' = others[k].pc
        /\ rng' = others[k].rng
        /\ lkpevl' = others[k].lkpevl
        /\ loracles' = others[k].loracles
        /\ lz' = others[k].lz
        /\ lres' = others[k].lres
        /\ lalpha' = others[k].lalpha
        /\ lquot' = others[k].lquot
        /\ lpc' = others[k].lpc
    /\ UNCHANGED <<index, lcs, computed>>

\* the witnesses of the calls: one that satisfies the circuit, one that
\* does not, one whose first column is too short
CallWitnesses(n) ==
    {[lens |-> [c \in 1..COLUMNS |-> n], sat |-> TRUE],
     [lens |-> [c \in 1..COLUMNS |-> n], sat |-> FALSE],
     [lens |-> [c \in 1..COLUMNS |-> IF c = 1 THEN n - 1 ELSE n],
      sat |-> FALSE]}

\* the calls share one Index and one ConstraintSystem of the smallest
\* domain; call 1 runs first; the other calls are calls of create on the
\* witness of call 1, or callers of the lookup functions
InitC ==
    /\ \E n \in DomainSizes :
        /\ \A m \in DomainSizes : n <= m
        /\ index = [n |-> n, public |-> 0, max_quot_size |-> MaxQuotSize,
                    max_poly_size |-> MaxPolySize]
        /\ \E g \in {n - 2, n} : \E w \in CallWitnesses(n) :
            /\ lcs = [n |-> n, table1 |-> [i \in 1..n |-> (i - 1) % P],
                      gates |-> GatesOf(g, Min(g, 1))]
            /\ witness = w
            /\ \/ /\ g = n
                  /\ \E s \in Seeds :
                        others = [k \in Calls \ {1} |-> CreateCall(w, s)]
               \/ others = [k \in Calls \ {1} |-> LookupCall]
    /\ oracles = NoOracles
    /\ fq_sponge = <<>>
    /\ fr_sponge = <<>>
    /\ comms = NoComms
    /\ quot = [division |-> "not_done"]
    /\ ops = <<>>
    /\ result = [tag |-> "none"]
    /\ pc = "start"
    /\ rng = thread_rng(0)
    /\ lkpevl = "none"
    /\ loracles = "none"
    /\ lz = <<>>
    /\ lres = [tag |-> "none"]
    /\ lalpha = <<>>
    /\ lquot = [tag |-> "none"]
    /\ lpc = "idle"
    /\ cur = 1
    /\ computed = NothingComputed

NextC ==
    \/ Switch
    \/ SortedSet \/ SortedSetPanic \/ Aggreg \/ Quot
    \/ CheckWitness \/ Setup \/ CommitWitness \/ BetaGamma \/ PermAggreg
    \/ Alpha \/ Evaluate \/ Quotient \/ CommitT \/ Zeta \/ EvalZeta
    \/ Linearize \/ OpeningChallenges \/ Open \/ Assemble

SpecCalls == InitC /\ [][NextC]_vars

(***************************************************************************)
(* Properties of the lookup argument.                                      *)
(***************************************************************************)
Range(s) == {s[i] : i \in 1..Len(s)}

\* the number of occurrences of x in the sequence s
Count(s, x) == Cardinality({i \in 1..Len(s) : s[i] = x})

IsNondecreasing(s) == \A i \in 1..(Len(s) - 1) : s[i] <= s[i + 1]

\* tbllkp_sortedset has returned
Sorted == lpc \in {"sorted", "aggregated"}

\* the rows of lw whose value does not occur in the table
ForeignRows == {j \in 1..Len(lkpevl.lw) : lkpevl.lw[j] \notin Range(lcs.table1)}

\* no denominator factor of the recurrence is zero under the challenges o
NoZeroDenominator(o) ==
    \A i \in 2..lcs.n : aggreg_denoms(lcs, lkpevl, o)[i] # 0

\* C3: for every table, in whatever order it stores its n values, and every
\* witness whose lookup values lw all occur in the table, tbllkp_sortedset
\* followed by tbllkp_aggreg ends with z[n-1] = 1 and returns Ok, whenever
\* no denominator factor of the recurrence is zero.
C3_Closure ==
    (lpc = "aggregated" /\ ForeignRows = {} /\ NoZeroDenominator(loracles))
        => (lz[lcs.n] = fone /\ lres.tag = "Ok")

\* the challenge pairs of F x F for which tbllkp_aggreg returns Ok on the
\* LookupEvals ev
AcceptedChallenges(cs, ev) ==
    {o \in [beta2 : F, gamma2 : F] :
        tbllkp_aggreg(cs, ev, o, <<0, 0, 0>>).tag = "Ok"}

\* the line beta2 = 0, and at most 2n-3 values of gamma2 for every other
\* beta2 but -1
ExceptionalBound(n) == P + (P - 2) * (2 * n - 3)

\* C4: when exactly one lookup value lw[j] does not occur in the table,
\* tbllkp_aggreg on the output of tbllkp_sortedset returns
\* Err(ProofCreation) as soon as z[n-1] # 1, without storing or returning
\* an aggregation polynomial, and it does so for all challenge pairs but
\* those of a small exceptional set (at most ExceptionalBound(n) of the
\* P * P pairs).
C4_ForeignValueRejected ==
    (Sorted /\ Cardinality(ForeignRows) = 1) =>
        /\ lpc = "sorted" =>
            Cardinality(AcceptedChallenges(lcs, lkpevl))
                <= ExceptionalBound(lcs.n)
        /\ (lpc = "aggregated" /\ lz[lcs.n] # fone) =>
            /\ lres = [tag |-> "Err", err |-> "ProofCreation"]
            /\ lkpevl.l = <<0>>
        /\ (lpc = "aggregated" /\ lres.tag = "Ok") =>
            loracles \in AcceptedChallenges(lcs, [lkpevl EXCEPT !.l = <<0>>])

C4_Witness ==
    /\ lpc = "aggregated"
    /\ Cardinality(ForeignRows) = 1
    /\ lcs.n = 4
    /\ NoZeroDenominator(loracles)
    /\ lres = [tag |-> "Err", err |-> "ProofCreation"]

Distinct(s) == Cardinality(Range(s)) = Len(s)

\* C10: with n = 4, one lookup-active row, lw = [a] and table = [a, b, c, t]
\* of distinct field elements, tbllkp_sortedset yields h1 and h2 of length 4
\* each with h1[3] = h2[0], and tbllkp_aggreg succeeds with the evaluation
\* vector of l equal to 1 at index 3 (taken with every lookup value in the
\* table and no zero denominator, the case most favourable to the claim).
C10_Scenario ==
    (/\ lpc = "aggregated"
     /\ lcs.n = 4
     /\ lcs.gates = GatesOf(4, 1)
     /\ Distinct(lcs.table1)
     /\ lkpevl.lw[1] = lcs.table1[1]
     /\ ForeignRows = {}
     /\ NoZeroDenominator(loracles))
        => /\ Len(lkpevl.h1) = 4
           /\ Len(lkpevl.h2) = 4
           /\ lkpevl.h1[4] = lkpevl.h2[1]
           /\ lres.tag = "Ok"
           /\ Len(lkpevl.l) = 4
           /\ lkpevl.l[4] = fone

(***************************************************************************)
(* Properties of ProverProof::create.                                      *)
(***************************************************************************)
Running == pc # "idle"

Returned == pc = "done"

LensOk == \A c \in 1..COLUMNS : witness.lens[c] = index.n

\* the names of the challenges a sponge gave, in the order it gave them
ChallengesOf(sponge) ==
    LET sq == SelectSeq(sponge, LAMBDA e : e.op = "challenge")
    IN  [i \in 1..Len(sq) |-> sq[i].what]

IsPrefix(a, b) == Len(a) <= Len(b) /\ a = SubSeq(b, 1, Len(a))

\* the position of the challenge named c in the sponge, 0 when absent
PosOf(sponge, c) ==
    IF \E i \in 1..Len(sponge) :
            sponge[i].op = "challenge" /\ sponge[i].what = c
    THEN CHOOSE i \in 1..Len(sponge) :
            sponge[i].op = "challenge" /\ sponge[i].what = c
    ELSE 0

\* the names of what the sponge absorbed before position k
AbsorbedBefore(sponge, k) ==
    LET pre == SelectSeq(SubSeq(sponge, 1, k - 1), LAMBDA e : e.op = "absorb")
    IN  [i \in 1..Len(pre) |-> pre[i].what]

\* the parts of the quotient commitment the sponge absorbs
TParts == {"t_comm.unshifted", "dummy", "t_comm.shifted"}

\* the challenge the oracle o holds was squeezed from the sponge at the
\* position of the challenge named c
DerivedAt(sponge, o, c) ==
    /\ PosOf(sponge, c) > 0
    /\ o = challenge_value(SubSeq(sponge, 1, PosOf(sponge, c) - 1))

\* the challenges a commitment was built with
UsesOf(what) ==
    IF what = "z_comm" THEN comms.z_comm.uses
    ELSE IF what \in TParts \ {"dummy"} THEN comms.t_comm.uses
    ELSE {}

C2_Order ==
    Running =>
        \* every challenge at most once, in the order beta, gamma, alpha,
        \* zeta and then v, u
        /\ IsPrefix(ChallengesOf(fq_sponge),
                    <<"beta", "gamma", "alpha", "zeta">>)
        /\ IsPrefix(ChallengesOf(fr_sponge), <<"v", "u">>)
        /\ fr_sponge # <<>> => PosOf(fq_sponge, "zeta") > 0
        /\ result.tag = "Ok" =>
            /\ ChallengesOf(fq_sponge) = <<"beta", "gamma", "alpha", "zeta">>
            /\ ChallengesOf(fr_sponge) = <<"v", "u">>
        \* an oracle is zero until its challenge is squeezed, and then holds
        \* the value squeezed at that position
        /\ \A c \in {"beta", "gamma"} :
            IF PosOf(fq_sponge, c) = 0
            THEN oracles[c].chal \in {"none", "zero"}
            ELSE DerivedAt(fq_sponge, oracles[c], c)
        /\ \A c \in {"alpha", "zeta"} :
            IF PosOf(fq_sponge, c) = 0
            THEN oracles[c].chal \in {"none", "zero"}
            ELSE /\ DerivedAt(fq_sponge, oracles[c \o "_chal"], c)
                 /\ oracles[c] = to_field(oracles[c \o "_chal"])
        /\ \A c \in {"v", "u"} :
            IF PosOf(fr_sponge, c) = 0
            THEN oracles[c].chal \in {"none", "zero"}
            ELSE /\ DerivedAt(fr_sponge, oracles[c \o "_chal"], c)
                 /\ oracles[c] = to_field(oracles[c \o "_chal"])
        \* beta, gamma: after the public input commitment and then the
        \* COLUMNS witness commitments, and nothing else
        /\ PosOf(fq_sponge, "beta") > 0 =>
            /\ AbsorbedBefore(fq_sponge, PosOf(fq_sponge, "beta"))
                = <<"public_comm">> \o [i \in 1..COLUMNS |-> "w_comm"]
            /\ \A i \in 1..COLUMNS : fq_sponge[i + 1].arg = i
        /\ PosOf(fq_sponge, "gamma") > 0 =>
            PosOf(fq_sponge, "gamma") = PosOf(fq_sponge, "beta") + 1
        \* alpha: right after the commitment to z was absorbed
        /\ PosOf(fq_sponge, "alpha") > 0 =>
            /\ PosOf(fq_sponge, "alpha") = PosOf(fq_sponge, "gamma") + 2
            /\ fq_sponge[PosOf(fq_sponge, "alpha") - 1]
                = [op |-> "absorb", what |-> "z_comm", arg |-> 0,
                   val |-> comms.z_comm]
        \* zeta: after the commitment to t was absorbed, and only that
        /\ PosOf(fq_sponge, "zeta") > 0 =>
            /\ PosOf(fq_sponge, "zeta") > PosOf(fq_sponge, "alpha") + 1
            /\ \A i \in (PosOf(fq_sponge, "alpha") + 1)
                            ..(PosOf(fq_sponge, "zeta") - 1) :
                fq_sponge[i].op = "absorb" /\ fq_sponge[i].what \in TParts
            /\ fq_sponge[PosOf(fq_sponge, "alpha") + 1].what
                = "t_comm.unshifted"
        \* v, u: from the scalar-field sponge, seeded with the digest of the
        \* base-field sponge, after the evaluations at zeta and zeta * omega
        /\ PosOf(fr_sponge, "v") > 0 =>
            /\ AbsorbedBefore(fr_sponge, PosOf(fr_sponge, "v"))
                = <<"fq_digest", "evals_zeta", "evals_zeta_omega">>
            /\ fr_sponge[1].arg = digest(fq_sponge)
            /\ fr_sponge[2].arg = oracles.zeta
            /\ fr_sponge[3].arg = oracles.zeta
        /\ PosOf(fr_sponge, "u") > 0 =>
            PosOf(fr_sponge, "u") = PosOf(fr_sponge, "v") + 1
        \* a commitment is absorbed only after every challenge it was built
        \* with was squeezed, and is committed before the next challenge
        /\ \A i \in 1..Len(fq_sponge) :
            fq_sponge[i].op = "absorb" =>
                \A c \in UsesOf(fq_sponge[i].what) :
                    /\ PosOf(fq_sponge, c) > 0
                    /\ PosOf(fq_sponge, c) < i
        /\ comms.z_comm.poly # "none" =>
            /\ comms.z_comm.beta = oracles.beta
            /\ comms.z_comm.gamma = oracles.gamma
            /\ oracles.beta.chal = "squeezed"
            /\ oracles.gamma.chal = "squeezed"
        /\ PosOf(fq_sponge, "alpha") = 0 => comms.t_comm.poly = "none"
        /\ PosOf(fq_sponge, "beta") = 0 => comms.z_comm.poly = "none"

\* a challenge that was derived is never overwritten
C2_Keep ==
    \A c \in OracleNames :
        oracles[c].chal \in {"squeezed", "to_field"} => oracles'[c] = oracles[c]

\* C2: in every run of create each challenge is derived exactly once and
\* never overwritten, in the order beta, gamma, alpha, zeta, v, u, each only
\* after its inputs were absorbed; a challenge depends only on commitments
\* absorbed strictly before it.
C2_ChallengeOrder == []C2_Order /\ [][C2_Keep]_vars

C2_Witness ==
    /\ Returned
    /\ result.tag = "Ok"
    /\ ChallengesOf(fq_sponge) \o ChallengesOf(fr_sponge)
        = <<"beta", "gamma", "alpha", "zeta", "v", "u">>

\* C1: for every witness whose COLUMNS columns all have length n and which
\* satisfies the constraint system, create returns Ok(proof) (and the proof
\* is accepted by ProverProof::verify).  Stated for an Index whose public
\* input count fits the domain, the case most favourable to the claim.
C1_ValidWitnessProves ==
    (Running /\ Returned /\ LensOk /\ witness.sat
        /\ index.public <= index.n) => result.tag = "Ok"

\* nothing of the proof construction has happened
NothingDone ==
    /\ ops = <<>>
    /\ fq_sponge = <<>>
    /\ fr_sponge = <<>>
    /\ oracles = NoOracles
    /\ comms = NoComms
    /\ quot = [division |-> "not_done"]

\* C5: if a witness column has a length different from the domain size n,
\* create returns Err(WitnessCsInconsistent) before any polynomial is
\* interpolated or committed, before the sponge absorbs anything and before
\* any challenge is derived.
C5_LengthCheckFirst ==
    (Running /\ ~LensOk) =>
        /\ pc \in {"start", "done"}
        /\ NothingDone
        /\ Returned => result = [tag |-> "Err", err |-> "WitnessCsInconsistent"]

C5_Witness ==
    /\ Returned
    /\ ~LensOk
    /\ witness.lens[1] = index.n
    /\ result = [tag |-> "Err", err |-> "WitnessCsInconsistent"]

\* C6: whenever the division of the quotient numerator by the vanishing
\* polynomial fails or leaves a nonzero remainder, create returns
\* Err(PolyDivision); the quotient is never committed, its commitment never
\* absorbed, zeta never derived and no proof returned.
C6_DivisionFailure ==
    (Running /\ quot.division \in {"none", "remainder"}) =>
        /\ Returned
        /\ result = [tag |-> "Err", err |-> "PolyDivision"]
        /\ comms.t_comm.poly = "none"
        /\ \A i \in 1..Len(fq_sponge) : fq_sponge[i].what \notin TParts
        /\ PosOf(fq_sponge, "zeta") = 0
        /\ oracles.zeta_chal.chal = "zero"
        /\ oracles.zeta.chal = "zero"
        /\ \A i \in 1..Len(ops) : ops[i] \notin {"quotient", "commit_t", "zeta"}

C6_Witness ==
    /\ Returned
    /\ quot.division = "remainder"
    /\ result = [tag |-> "Err", err |-> "PolyDivision"]
    /\ PosOf(fq_sponge, "alpha") > 0

\* C7: for every input create ends in exactly one of two ways: it returns
\* Ok with a complete ProverProof, or it returns Err(ProofError); every
\* failure is reported as an Err value.
C7_OkOrErr ==
    (Running /\ Returned) =>
        \/ result.tag = "Err"
        \/ /\ result.tag = "Ok"
           /\ result.commitments.w_comm.poly = "w"
           /\ result.commitments.z_comm.poly = "z"
           /\ result.commitments.t_comm.poly = "t"

\* the stages of the construction, named by the step that completes each
Stages ==
    <<"witness_bound", "commit_w", "alpha_powers", "evaluate", "quotient",
      "commit_t", "linearize", "open", "assemble">>

StagesDone == SelectSeq(ops, LAMBDA o : o \in Range(Stages))

\* the position of the step o in ops, 0 when it was not performed
StepPos(o) ==
    IF \E i \in 1..Len(ops) : ops[i] = o
    THEN CHOOSE i \in 1..Len(ops) : ops[i] = o
    ELSE 0

\* C8: a run of create that returns Ok went through the stages in exactly
\* this order, none skipped and none repeated: witness bound, witness
\* columns committed, z built and committed with the alpha powers derived,
\* polynomials evaluated, quotient formed, quotient committed,
\* linearization built and evaluated, opening proof produced, proof
\* assembled.  A run that fails in a stage performs no later stage.
C8_StageOrder ==
    Running =>
        /\ IsPrefix(StagesDone, Stages)
        /\ result.tag = "Ok" => StagesDone = Stages
        /\ StepPos("alpha_powers") > 0 =>
            /\ StepPos("commit_w") < StepPos("perm_aggreg")
            /\ StepPos("perm_aggreg") < StepPos("commit_z")
            /\ StepPos("commit_z") < StepPos("alpha_powers")
        /\ result.tag \in {"Err", "panic"} =>
            /\ Returned
            /\ StagesDone # Stages

C8_Witness ==
    /\ Returned
    /\ result.tag = "Ok"
    /\ StagesDone = Stages

\* the number of group elements of the quotient commitment the sponge has
\* absorbed up to position k
RECURSIVE TAbsorbed(_, _)
TAbsorbed(sponge, k) ==
    IF k = 0 THEN 0
    ELSE TAbsorbed(sponge, k - 1)
            + (IF sponge[k].op = "absorb" /\ sponge[k].what \in TParts
               THEN sponge[k].arg ELSE 0)

\* C12: in every run of create that derives zeta, the sponge absorbed
\* max_t_size + 1 group elements for the quotient commitment before zeta:
\* the unshifted chunks, the dummy point up to max_t_size, and one element
\* for the shifted part (the dummy point when it is zero); the count is the
\* same whatever the number of chunks of the commitment.
C12_PaddedAbsorption ==
    (Running /\ PosOf(fq_sponge, "zeta") > 0) =>
        LET k  == PosOf(fq_sponge, "zeta")
            a  == PosOf(fq_sponge, "alpha")
            m  == max_t_size(index)
        IN  /\ TAbsorbed(fq_sponge, k) = m + 1
            /\ TAbsorbed(fq_sponge, Len(fq_sponge)) = m + 1
            /\ k = a + 4
            /\ fq_sponge[a + 1] = [op |-> "absorb", what |-> "t_comm.unshifted",
                                   arg |-> comms.t_comm.unshifted,
                                   val |-> comms.t_comm]
            /\ fq_sponge[a + 2] = [op |-> "absorb", what |-> "dummy",
                                   arg |-> m - comms.t_comm.unshifted]
            /\ fq_sponge[a + 2].arg >= 0
            /\ fq_sponge[a + 3] =
                    IF comms.t_comm.shifted = "Zero"
                    THEN [op |-> "absorb", what |-> "dummy", arg |-> 1]
                    ELSE [op |-> "absorb", what |-> "t_comm.shifted",
                          arg |-> 1, val |-> comms.t_comm]

C12_Witness ==
    /\ Returned
    /\ result.tag = "Ok"
    /\ comms.t_comm.unshifted < max_t_size(index)
    /\ comms.t_comm.shifted = "Zero"
    /\ PosOf(fq_sponge, "zeta") > 0

\* the recurrence of the aggregation written with one inverse per row:
\* z[0] = 1, z[j+1] = z[j] * (1+beta2) * (g + lw[j])
\*   * (gamma' + table[j] + beta2*table[j+1])
\*   / ((gamma' + h1[j] + beta2*h1[j+1]) * (gamma' + h2[j] + beta2*h2[j+1]))
\* with gamma' = (1+beta2)*gamma2, g being the challenge added to lw[j]
RECURSIVE RowByRow(_, _, _, _, _)
RowByRow(cs, ev, o, g, k) ==
    IF k = 1 THEN <<fone>>
    ELSE LET z  == RowByRow(cs, ev, o, g, k - 1)
             j  == k - 1
             gp == fmul(fadd(fone, o.beta2), o.gamma2)
             d1 == fadd(fadd(gp, ev.h1[j]), fmul(o.beta2, ev.h1[j + 1]))
             d2 == fadd(fadd(gp, ev.h2[j]), fmul(o.beta2, ev.h2[j + 1]))
             nu == fmul(fmul(fadd(fone, o.beta2), fadd(g, ev.lw[j])),
                        fadd(fadd(gp, cs.table1[j]),
                             fmul(o.beta2, cs.table1[j + 1])))
         IN  Append(z, fmul(fmul(z[j], nu), finverse(fmul(d1, d2))))

\* C14 as stated: the vector z of tbllkp_aggreg is the row-by-row recurrence
\* whose lone factor (gamma + lw[j]) takes gamma, the permutation challenge
\* of the RandomOracles (a field tbllkp_aggreg never reads, so any field
\* element), whenever all n-1 denominators are nonzero.
C14_SpecSymbols ==
    (lpc = "aggregated" /\ NoZeroDenominator(loracles)) =>
        \A gamma \in F : lz = RowByRow(lcs, lkpevl, loracles, gamma, lcs.n)

\* C14: the vector z that tbllkp_aggreg builds with its two passes and one
\* batched inversion equals the row-by-row recurrence computed with an
\* individual inverse per row, the lone factor being (gamma2 + lw[j]) with
\* the lookup challenge gamma2, whenever all n-1 denominators are nonzero.
C14_BatchedEqualsRowByRow ==
    (lpc = "aggregated" /\ NoZeroDenominator(loracles)) =>
        /\ lz = RowByRow(lcs, lkpevl, loracles, loracles.gamma2, lcs.n)
        /\ Len(lz) = lcs.n
        /\ lz[1] = fone

C14_Witness ==
    /\ lpc = "aggregated"
    /\ lcs.n = 4
    /\ NoZeroDenominator(loracles)
    /\ loracles.beta2 # 0
    /\ Cardinality(Range(lz)) >= 3
    /\ lz = RowByRow(lcs, lkpevl, loracles, loracles.gamma2, lcs.n)

\* the position of the step x in the assembly of the quotient, 0 when absent
AssemblyPos(x) ==
    IF \E i \in 1..Len(quot.steps) : quot.steps[i] = x
    THEN CHOOSE i \in 1..Len(quot.steps) : quot.steps[i] = x
    ELSE 0

\* the quotient was formed
QuotientFormed == Running /\ quot.division = "exact"

\* the sums are interpolated, low-degree domain first, before the division
InterpolatedBeforeDivision ==
    /\ 0 < AssemblyPos("sum_t4")
    /\ AssemblyPos("sum_t4") < AssemblyPos("interpolate_t4")
    /\ 0 < AssemblyPos("sum_t8")
    /\ AssemblyPos("sum_t8") < AssemblyPos("interpolate_t8")
    /\ AssemblyPos("interpolate_t4") < AssemblyPos("interpolate_t8")
    /\ AssemblyPos("interpolate_t8") < AssemblyPos("divide_by_vanishing_poly")
    /\ AssemblyPos("divide_by_vanishing_poly") < AssemblyPos("check_remainder")
    /\ {"t4", "t8"} \subseteq quot.dividend
    /\ quot.divisor = "vanishing"

\* C15 as stated: the boundary-divided terms bnd of perm_quot are added to
\* the total before it is divided by the vanishing polynomial, and the
\* committed t is the quotient of the division of that total.
C15_BoundaryBeforeDivision ==
    QuotientFormed =>
        /\ InterpolatedBeforeDivision
        /\ 0 < AssemblyPos("add_bnd")
        /\ AssemblyPos("add_bnd") < AssemblyPos("divide_by_vanishing_poly")
        /\ "bnd" \in quot.dividend

\* C15: the low-degree-domain contributions are summed and interpolated,
\* the high-degree-domain contributions are summed and interpolated, the
\* total (with genp and posp) is divided by the vanishing polynomial and
\* its remainder checked, and only then the boundary-divided terms bnd are
\* added: the committed t is the quotient of the division plus bnd, and bnd
\* is not part of what is divided.
C15_BoundaryAfterDivision ==
    QuotientFormed =>
        /\ InterpolatedBeforeDivision
        /\ AssemblyPos("check_remainder") < AssemblyPos("add_bnd")
        /\ AssemblyPos("add_bnd") = Len(quot.steps)
        /\ "bnd" \notin quot.dividend
        /\ quot.added = {"bnd"}
        /\ comms.t_comm.poly # "none" => StepPos("quotient") < StepPos("commit_t")

C15_Witness ==
    /\ Returned
    /\ result.tag = "Ok"
    /\ QuotientFormed
    /\ quot.added = {"bnd"}
    /\ comms.t_comm.poly = "t"

\* C17: when the table has n entries and the circuit has at least n-1
\* gates, tbllkp_sortedset returns (it does not panic) lw of length n-1 and
\* h1, h2 of length n each, with h1 = s[0..n) and h2 = s[n-1] followed by
\* s[n..2n-1), s being the sorted sequence of length 2n-1 of lw and the
\* table; h1[n-1] = h2[0] is the one position of s in both windows, every
\* other position of s is in exactly one of them.
C17_Windows ==
    (lpc # "idle" /\ Len(lcs.table1) = lcs.n /\ Len(lcs.gates) >= lcs.n - 1) =>
        /\ lpc # "panic"
        /\ Sorted =>
            LET n == lcs.n
                s == sort_unstable(lkpevl.lw \o lcs.table1)
            IN  /\ Len(lkpevl.lw) = n - 1
                /\ Len(s) = 2 * n - 1
                /\ Len(lkpevl.h1) = n
                /\ Len(lkpevl.h2) = n
                /\ \A i \in 1..n : lkpevl.h1[i] = s[i]
                /\ lkpevl.h2[1] = s[n]
                /\ \A i \in 2..n : lkpevl.h2[i] = s[n + i - 1]
                /\ lkpevl.h1[n] = lkpevl.h2[1]
                /\ lkpevl.h1 \o Tail(lkpevl.h2) = s

C17_Witness ==
    /\ lpc = "sorted"
    /\ lcs.n = 4
    /\ Len(lcs.gates) = 4
    /\ \E j \in 1..3 : lkpevl.lw[j] # 0
    /\ lkpevl.h1[4] = lkpevl.h2[1]
    /\ lkpevl.h1[1] # lkpevl.h1[4]
    /\ lkpevl.h2[4] # lkpevl.h2[1]

\* the two sides of the row identity of tbllkp_quot at row j (1-based):
\* l(x)*(1+beta2)*(gamma2+lw(x))*(gamma'+table(x)+beta2*table(wx)) and
\* l(wx)*(gamma'+h1(x)+beta2*h1(wx))*(gamma'+h2(x)+beta2*h2(wx))
RowLeft(j) ==
    LET b1 == fadd(fone, loracles.beta2)
        gp == fmul(b1, loracles.gamma2)
    IN  fmul(fmul(fmul(lkpevl.l[j], b1), fadd(loracles.gamma2, lkpevl.lw[j])),
             fadd(fadd(gp, lcs.table1[j]),
                  fmul(loracles.beta2, lcs.table1[j + 1])))

RowRight(j) ==
    LET b1 == fadd(fone, loracles.beta2)
        gp == fmul(b1, loracles.gamma2)
    IN  fmul(fmul(lkpevl.l[j + 1],
                  fadd(fadd(gp, lkpevl.h1[j]),
                       fmul(loracles.beta2, lkpevl.h1[j + 1]))),
             fadd(fadd(gp, lkpevl.h2[j]),
                  fmul(loracles.beta2, lkpevl.h2[j + 1])))

\* C18: whenever tbllkp_aggreg returns Ok, the stored evaluations
\* z = lkpevl.l satisfy the row identity of tbllkp_quot at every row
\* j in 0..n-2 (every domain point but the last, w^(n-1), where the mask
\* vanishes); Ok is never returned when a denominator factor is zero.
C18_RowIdentity ==
    (lpc = "aggregated" /\ lres.tag = "Ok") =>
        /\ lkpevl.l = lz
        /\ Len(lkpevl.l) = lcs.n
        /\ \A j \in 1..(lcs.n - 1) : RowLeft(j) = RowRight(j)
        /\ NoZeroDenominator(loracles)

C18_Witness ==
    /\ lpc = "aggregated"
    /\ lres.tag = "Ok"
    /\ lcs.n = 4
    /\ loracles.beta2 # 0
    /\ \E j \in 1..3 : lkpevl.lw[j] # 0
    /\ \E j \in 1..4 : lkpevl.l[j] # fone
    /\ RowLeft(3) = RowRight(3)

\* tbllkp_quot has returned
Quotiented == lpc = "quotient"

\* the last point w^(n-1) of the domain
LastPoint == fpow(group_gen(lcs.n), lcs.n - 1)

\* the dividends of the two boundary divisions of tbllkp_quot on polys
Dividend1(polys) == poly_scale(poly_sub(polys.l, <<fone>>), lalpha[2])

Dividend2(polys) ==
    LET w   == group_gen(lcs.n)
        h2w == [i \in 1..Len(polys.h2) |-> fmul(polys.h2[i], fpow(w, i - 1))]
    IN  poly_add(poly_scale(poly_sub(polys.l, <<fone>>), lalpha[3]),
                 poly_scale(poly_sub(polys.h1, from_coefficients(h2w)),
                            lalpha[4]))

\* C16: tbllkp_quot returns Ok only if both boundary divisions leave a zero
\* remainder, alpha[1]*(l - 1) by (x - 1) and alpha[2]*(l - 1) +
\* alpha[3]*(h1(x) - h2(w x)) by (x - w^(n-1)), the sum of the two quotients
\* being the boundary term it returns; if a dividend does not vanish at 1
\* respectively at w^(n-1) it returns Err(PolyDivision) and nothing else.
C16_BoundaryDivisions ==
    Quotiented =>
        LET polys == QuotPolys
            d1    == Dividend1(polys)
            d2    == Dividend2(polys)
            last  == LastPoint
        IN  /\ lquot.tag = "Ok" <=>
                    /\ poly_evaluate(d1, fone) = 0
                    /\ poly_evaluate(d2, last) = 0
            /\ lquot.tag # "Ok" =>
                    lquot = [tag |-> "Err", err |-> "PolyDivision"]
            /\ lquot.tag = "Ok" =>
                    \A c \in F \ {fone, last} :
                        poly_evaluate(lquot.bnd, c) =
                            fadd(fmul(poly_evaluate(d1, c),
                                      finverse(fsub(c, fone))),
                                 fmul(poly_evaluate(d2, c),
                                      finverse(fsub(c, last))))

C16_Witness ==
    /\ Quotiented
    /\ lcs.n = 4
    /\ lalpha[2] = 0
    /\ lres.tag = "none"
    /\ poly_evaluate(Dividend2(QuotPolys), LastPoint) # 0
    /\ lquot = [tag |-> "Err", err |-> "PolyDivision"]

\* C19: when tbllkp_sortedset followed by tbllkp_aggreg returned Ok,
\* tbllkp_quot called with l = the returned blinded polynomial and h1, h2 =
\* the interpolations of the windows returns Ok for every alpha: l is 1 at
\* the first domain point and at w^(n-1), and h1 at w^(n-1) equals h2 at the
\* first domain point, so both dividends vanish at their divisor's root.
C19_QuotAfterAggreg ==
    (Quotiented /\ lres.tag = "Ok") =>
        LET polys == QuotPolys
            last  == LastPoint
        IN  /\ lquot.tag = "Ok"
            /\ poly_evaluate(polys.l, fone) = fone
            /\ poly_evaluate(polys.l, last) = fone
            /\ poly_evaluate(polys.h1, last) = poly_evaluate(polys.h2, fone)
            /\ poly_evaluate(Dividend1(polys), fone) = 0
            /\ poly_evaluate(Dividend2(polys), last) = 0

C19_Witness ==
    /\ Quotiented
    /\ lres.tag = "Ok"
    /\ lquot.tag = "Ok"
    /\ lcs.n = 4
    /\ lalpha = <<2, 4, 3, 1>>
    /\ lres.blind = <<1, 0, 1>>
    /\ \E j \in 1..4 : lkpevl.l[j] # fone
    /\ lquot.bnd # <<>>

(***************************************************************************)
(* Properties of calls that run at the same time.                          *)
(***************************************************************************)
\* the state of every call
Contexts ==
    [k \in DOMAIN others \cup {cur} |-> IF k = cur THEN Context ELSE others[k]]

\* the call with the state c is a call of create
IsCreate(c) == c.pc # "idle"

\* the challenges of the oracles o that were derived
Derived(o) == {x \in OracleNames : o[x].chal \notin {"none", "zero"}}

\* the commitments of cm that were made
Made(cm) == {x \in DOMAIN cm : cm[x].poly # "none"}

C13_SharedReadOnly ==
    [][/\ index' = index
       /\ lcs' = lcs
       /\ DOMAIN Contexts' = DOMAIN Contexts
       /\ \A k \in DOMAIN Contexts :
            (k # cur \/ cur' # cur) => Contexts'[k] = Contexts[k]]_vars

\* two calls are under way at the same time: each has taken steps and has
\* steps left
C13_Witness ==
    \E k \in DOMAIN others :
        /\ \/ others[k].pc \notin {"idle", "start", "done"}
           \/ others[k].lpc \in {"sorted", "aggregated"}
        /\ pc \notin {"idle", "start", "done"}
        /\ Runnable(others[k])
        /\ comms.w_comm.poly # "none"

====
